---- MODULE Spec2Model ----
(***************************************************************************)
(* Three resource-allocation programs written with Pyomo and solved with   *)
(* GLPK:                                                                   *)
(*   punto_1ab.py  sprint planning: modelA (global capacity) and modelB    *)
(*                 (assignment of tasks to developers)                     *)
(*   punto_2a.py   assignment of jobs to workers                           *)
(*   punto_3.py    cargo of a humanitarian mission on three aircraft       *)
(* Each program builds a model, calls solver.solve and reports the values  *)
(* the solver loaded into the model's variables.                           *)
(*                                                                         *)
(* A Pyomo variable holds no value (None) until a solve loads one: the     *)
(* values of an indexed variable are a function whose domain is empty      *)
(* before the load.  The solver is an external program; it is modelled by  *)
(* its contract: it answers "optimal" with a point that satisfies every    *)
(* constraint of the model and maximises its objective, "infeasible" when  *)
(* no point satisfies them, or it cannot be run at all.                    *)
(***************************************************************************)
EXTENDS Integers, FiniteSets, Sequences, TLC

VARIABLES
    pcS,        \* punto_1ab: position of the script
    modelA,     \* punto_1ab: modelA, its parameters p, w and the values of x
    modelB,     \* punto_1ab: modelB, its parameters p, w, K and the values of y
    termS,      \* punto_1ab: termination condition of the last solve
    solverS,    \* punto_1ab: the working state of the solver inside a solve
    outS,       \* punto_1ab: what the script printed and plotted, in order
    pcW,        \* punto_2a: position of the script
    model2,     \* punto_2a: model, its parameters G, h, Te and the values of x
    termW,      \* punto_2a: termination condition of the solve
    solverW,    \* punto_2a: the working state of the solver inside the solve
    eW,         \* punto_2a: how many workers the extraction loop has done
    horas_usadas,       \* punto_2a: hours used, by worker
    ganancia_por_dev,   \* punto_2a: profit, by worker
    asignaciones,       \* punto_2a: the jobs of each worker
    outW,       \* punto_2a: what the script printed and plotted, in order
    pcL,        \* punto_3: position of the script
    model3,     \* punto_3: model, its parameters and the values of x, y_med, y_agua
    termL,      \* punto_3: termination condition of the solve
    solverL,    \* punto_3: the working state of the solver inside the solve
    outL        \* punto_3: what the script printed and plotted, in order

varsS == <<pcS, modelA, modelB, termS, solverS, outS>>
varsW == <<pcW, model2, termW, solverW, eW, horas_usadas, ganancia_por_dev,
           asignaciones, outW>>
varsL == <<pcL, model3, termL, solverL, outL>>
vars == <<varsS, varsW, varsL>>

----------------------------------------------------------------------------
(* Helpers *)

RECURSIVE SumTo(_, _)
SumTo(f, n) == IF n = 0 THEN 0 ELSE f[n] + SumTo(f, n - 1)

Max(S) == CHOOSE m \in S : \A k \in S : k <= m

Binary == {0, 1}

----------------------------------------------------------------------------
(* punto_1ab.py: data *)

p == <<5, 8, 13, 1, 21, 2, 8, 5, 8, 13, 21>>
w == <<7, 5, 6, 3, 1, 4, 6, 6, 2, 7, 6>>
C == 52
K == <<15, 15, 15, 15>>
NT == 11
ND == 4
T == 1..NT
D == 1..ND

(* A variable's values before any solve: none. *)
NoValues == <<>>

----------------------------------------------------------------------------
(* punto_1ab.py: modelA *)

objA_rule(model, x) == SumTo([t \in T |-> model.w[t] * x[t]], NT)

(* capA_rule with the priorities where the points belong. *)
capA_rule_Priority(model, x) ==
    SumTo([t \in T |-> model.w[t] * x[t]], NT) <= C

capA_rule(model, x) == SumTo([t \in T |-> model.p[t] * x[t]], NT) <= C

FeasibleA(model, x) == capA_rule(model, x)

(* The points of x's domain, Binary for every task. *)
DomainA == [T -> Binary]

(* What a solve of modelA may load: the feasible points of maximal objective. *)
OptimalA(model) ==
    LET F == {x \in DomainA : FeasibleA(model, x)}
        best == Max({objA_rule(model, x) : x \in F})
    IN  {x \in F : objA_rule(model, x) = best}

(* The tasks the report prints: those whose value is above 0.5. *)
SelectedA(x) == {t \in T : 2 * x[t] > 1}

----------------------------------------------------------------------------
(* punto_1ab.py: modelB *)

RowSum(r) == SumTo(r, ND)

objB_rule(model, y) == SumTo([t \in T |-> model.w[t] * RowSum(y[t])], NT)

cap_global_rule(model, y) ==
    SumTo([t \in T |-> model.p[t] * RowSum(y[t])], NT) <= C

(* cap_dev_rule with the team's capacity where the developer's belongs. *)
cap_dev_rule_Global(model, y, d) ==
    SumTo([t \in T |-> model.p[t] * y[t][d]], NT) <= C

cap_dev_rule(model, y, d) ==
    SumTo([t \in T |-> model.p[t] * y[t][d]], NT) <= model.K[d]

(* unique_dev_rule that lets a task have two developers. *)
unique_dev_rule_Two(model, y, t) == RowSum(y[t]) <= 2

unique_dev_rule(model, y, t) == RowSum(y[t]) <= 1

FeasibleB(model, y) ==
    /\ \A t \in T : unique_dev_rule(model, y, t)
    /\ \A d \in D : cap_dev_rule(model, y, d)
    /\ cap_global_rule(model, y)

(* The point with every y[t,d] = 0, and the rows a task can take. *)
ZeroB == [t \in T |-> [d \in D |-> 0]]
RowsB == [D -> Binary]

(* The solver branches over the cells (t, d) in order: the task and the
   developer of the cell at position i. *)
TaskOf(i) == ((i - 1) \div ND) + 1
DevOf(i) == ((i - 1) % ND) + 1

(* What the solver knows before it branches.  RowBestB: the most one task can
   add to the objective on its own; PotentialB[t]: the most the tasks after
   task t - 1 can add together.  RelaxBoundB: the optimum of the relaxation
   that drops the per-developer capacities, where only the number of
   developers a task has matters: no feasible point has a greater objective. *)
RowBestB(model, t) ==
    Max({objB_rule(model, [ZeroB EXCEPT ![t] = r]) :
            r \in {r \in RowsB : FeasibleB(model, [ZeroB EXCEPT ![t] = r])}})

PotentialB(model) ==
    LET rb == [t \in T |-> RowBestB(model, t)]
    IN  [t \in 1..(NT + 1) |-> SumTo(rb, NT) - SumTo(rb, t - 1)]

RelaxBoundB(model) ==
    Max({SumTo([t \in T |-> model.w[t] * x[t]], NT) :
            x \in {x \in [T -> Binary] :
                      SumTo([t \in T |-> model.p[t] * x[t]], NT) <= C}})

----------------------------------------------------------------------------
(* punto_1ab.py: the script *)

Idle == [cand |-> NoValues, last |-> 0, bound |-> 0, pot |-> <<>>]

InitS ==
    /\ pcS = "solveA"
    /\ modelA = [p |-> p, w |-> w, x |-> NoValues]
    /\ modelB = [p |-> p, w |-> w, K |-> K, y |-> NoValues]
    /\ termS = "none"
    /\ solverS = Idle
    /\ outS = <<>>

(* SolverFactory('glpk') found no executable: solve raises, the script ends. *)
SolveA_Unavailable ==
    /\ pcS = "solveA"
    /\ pcS' = "crashed"
    /\ termS' = "error"
    /\ UNCHANGED <<modelA, modelB, solverS, outS, varsW, varsL>>

(* solver.solve(modelA): the values of an optimal point are loaded into x;
   with no feasible point nothing is loaded. *)
SolveA ==
    /\ pcS = "solveA"
    /\ IF {x \in DomainA : FeasibleA(modelA, x)} = {}
       THEN /\ termS' = "infeasible"
            /\ UNCHANGED modelA
       ELSE /\ \E x \in OptimalA(modelA) : modelA' = [modelA EXCEPT !.x = x]
            /\ termS' = "optimal"
    /\ pcS' = "reportA"
    /\ UNCHANGED <<modelB, solverS, outS, varsW, varsL>>

(* Lines 102-107: modelA.obj() and x[t].value are read whatever the solve
   answered; a variable without a value makes modelA.obj() raise. *)
ReportA ==
    /\ pcS = "reportA"
    /\ IF DOMAIN modelA.x # T
       THEN /\ pcS' = "crashed"
            /\ UNCHANGED outS
       ELSE /\ outS' = Append(outS, [part |-> "A",
                                     obj |-> objA_rule(modelA, modelA.x),
                                     sel |-> SelectedA(modelA.x)])
            /\ pcS' = "solveB"
    /\ UNCHANGED <<modelA, modelB, termS, solverS, varsW, varsL>>

(* solver.solve(modelB): the solver starts from the point of all zeros. *)
SolveB_Start ==
    /\ pcS = "solveB"
    /\ IF ~FeasibleB(modelB, ZeroB)
       THEN /\ termS' = "infeasible"
            /\ pcS' = "reportB"
            /\ UNCHANGED solverS
       ELSE /\ solverS' = [cand |-> ZeroB, last |-> 0,
                           bound |-> RelaxBoundB(modelB),
                           pot |-> PotentialB(modelB)]
            /\ pcS' = "solvingB"
            /\ UNCHANGED termS
    /\ UNCHANGED <<modelA, modelB, outS, varsW, varsL>>

(* The solver branches: it sets the next y[t,d] to 1, in the order of the
   cells, and keeps the point when it satisfies the constraints and can
   still reach the bound. *)
SolveB_Branch ==
    /\ pcS = "solvingB"
    /\ \E i \in (solverS.last + 1)..(NT * ND) :
          LET t == TaskOf(i)
              y2 == [solverS.cand EXCEPT ![t][DevOf(i)] = 1]
          IN  /\ FeasibleB(modelB, y2)
              /\ objB_rule(modelB, y2) + solverS.pot[t + 1] >= solverS.bound
              /\ solverS' = [solverS EXCEPT !.cand = y2, !.last = i]
    /\ UNCHANGED <<pcS, modelA, modelB, termS, outS, varsW, varsL>>

(* SolveB_Return through a variable store shared with modelA: the load
   clears the values of x. *)
SolveB_Return_SharedX ==
    /\ pcS = "solvingB"
    /\ FeasibleB(modelB, solverS.cand)
    /\ objB_rule(modelB, solverS.cand) >= solverS.bound
    /\ modelB' = [modelB EXCEPT !.y = solverS.cand]
    /\ modelA' = [modelA EXCEPT !.x = NoValues]
    /\ termS' = "optimal"
    /\ solverS' = Idle
    /\ pcS' = "reportB"
    /\ UNCHANGED <<outS, varsW, varsL>>

(* The solver returns a point that meets the bound: its values are loaded
   into y. *)
SolveB_Return ==
    /\ pcS = "solvingB"
    /\ FeasibleB(modelB, solverS.cand)
    /\ objB_rule(modelB, solverS.cand) >= solverS.bound
    /\ modelB' = [modelB EXCEPT !.y = solverS.cand]
    /\ termS' = "optimal"
    /\ solverS' = Idle
    /\ pcS' = "reportB"
    /\ UNCHANGED <<modelA, outS, varsW, varsL>>

(* The pairs the report prints: those whose value is above 0.5. *)
SelectedB(y) == {c \in T \X D : 2 * y[c[1]][c[2]] > 1}

(* Lines 111-117. *)
ReportB ==
    /\ pcS = "reportB"
    /\ IF DOMAIN modelB.y # T
       THEN /\ pcS' = "crashed"
            /\ UNCHANGED outS
       ELSE /\ outS' = Append(outS, [part |-> "B",
                                     obj |-> objB_rule(modelB, modelB.y),
                                     sel |-> SelectedB(modelB.y)])
            /\ pcS' = "plot"
    /\ UNCHANGED <<modelA, modelB, termS, solverS, varsW, varsL>>

(* Lines 123-138: the values of y are copied into the matrix of the chart. *)
PlotB ==
    /\ pcS = "plot"
    /\ outS' = Append(outS, [part |-> "chart", obj |-> 0,
                             sel |-> SelectedB(modelB.y)])
    /\ pcS' = "done"
    /\ UNCHANGED <<modelA, modelB, termS, solverS, varsW, varsL>>

NextS ==
    \/ SolveA_Unavailable
    \/ SolveA
    \/ ReportA
    \/ SolveB_Start
    \/ SolveB_Branch
    \/ SolveB_Return
    \/ ReportB
    \/ PlotB

(* The whole search of solver.solve(modelB): the same branching with no
   incumbent to cut against, so that every point that satisfies the
   constraints of modelB is a node. *)
InitSearchB ==
    /\ pcS = "solvingB"
    /\ modelA = [p |-> p, w |-> w, x |-> NoValues]
    /\ modelB = [p |-> p, w |-> w, K |-> K, y |-> NoValues]
    /\ termS = "none"
    /\ solverS = [cand |-> ZeroB, last |-> 0, bound |-> 0,
                  pot |-> PotentialB(modelB)]
    /\ outS = <<>>

(* A solver that breaks its contract: it answers "optimal" with any point of
   x's domain. *)
SolveA_Untrusted ==
    /\ pcS = "solveA"
    /\ \E x \in DomainA : modelA' = [modelA EXCEPT !.x = x]
    /\ termS' = "optimal"
    /\ pcS' = "reportA"
    /\ UNCHANGED <<modelB, solverS, outS, varsW, varsL>>

NextUntrusted ==
    \/ SolveA_Untrusted
    \/ ReportA

----------------------------------------------------------------------------
(* punto_2a.py: data and model *)

T_list == <<1, 2, 3, 4, 5>>
E_list == <<1, 2, 3>>
G == <<50, 60, 40, 70, 30>>
h == <<4, 5, 3, 6, 2>>
Te == <<8, 10, 6>>
TW == {T_list[i] : i \in DOMAIN T_list}
EW == {E_list[i] : i \in DOMAIN E_list}

obj2(m, x) ==
    SumTo([i \in DOMAIN E_list |->
              SumTo([j \in DOMAIN T_list |->
                        m.G[T_list[j]] * x[E_list[i]][T_list[j]]],
                    Len(T_list))],
          Len(E_list))

(* Availability_rule that counts the jobs instead of their hours. *)
Availability_rule_Count(m, x, e) ==
    SumTo([j \in DOMAIN T_list |-> x[e][T_list[j]]], Len(T_list)) <= m.Te[e]

Availability_rule(m, x, e) ==
    SumTo([j \in DOMAIN T_list |-> m.h[T_list[j]] * x[e][T_list[j]]],
          Len(T_list)) <= m.Te[e]

OneWorkerPerTask_rule(m, x, t) ==
    SumTo([i \in DOMAIN E_list |-> x[E_list[i]][t]], Len(E_list)) <= 1

Feasible2(m, x) ==
    /\ \A e \in EW : Availability_rule(m, x, e)
    /\ \A t \in TW : OneWorkerPerTask_rule(m, x, t)

Domain2 == [EW -> [TW -> Binary]]
Zero2 == [e \in EW |-> [t \in TW |-> 0]]

(* The optimal value of the model, none (-1) with no feasible point. *)
BestVal2(m) ==
    LET F == {x \in Domain2 : Feasible2(m, x)}
    IN  IF F = {} THEN -1 ELSE Max({obj2(m, x) : x \in F})

----------------------------------------------------------------------------
(* punto_2a.py: the script *)

IdleW == [cand |-> NoValues, last |-> 0, bound |-> 0]

InitW ==
    /\ pcW = "solve"
    /\ model2 = [G |-> G, h |-> h, Te |-> Te, x |-> NoValues]
    /\ termW = "none"
    /\ solverW = IdleW
    /\ eW = 0
    /\ horas_usadas = <<>>
    /\ ganancia_por_dev = <<>>
    /\ asignaciones = <<>>
    /\ outW = <<>>

(* SolverFactory('glpk') found no executable: solve raises, the script ends. *)
Solve2_Unavailable ==
    /\ pcW = "solve"
    /\ pcW' = "crashed"
    /\ termW' = "error"
    /\ UNCHANGED <<model2, solverW, eW, horas_usadas, ganancia_por_dev,
                   asignaciones, outW, varsS, varsL>>

(* solver.solve(model): the solver starts from the point of all zeros. *)
Solve2_Start ==
    /\ pcW = "solve"
    /\ LET best == BestVal2(model2)
       IN  IF best < 0
           THEN /\ termW' = "infeasible"
                /\ pcW' = "print"
                /\ UNCHANGED solverW
           ELSE /\ solverW' = [cand |-> Zero2, last |-> 0, bound |-> best]
                /\ pcW' = "solving"
                /\ UNCHANGED termW
    /\ UNCHANGED <<model2, eW, horas_usadas, ganancia_por_dev, asignaciones,
                   outW, varsS, varsL>>

(* The solver branches: it sets the next x[e,t] to 1, in the order of the
   cells, and keeps the point when it satisfies the constraints. *)
Solve2_Branch ==
    /\ pcW = "solving"
    /\ \E i \in (solverW.last + 1)..(Len(E_list) * Len(T_list)) :
          LET e == E_list[((i - 1) \div Len(T_list)) + 1]
              t == T_list[((i - 1) % Len(T_list)) + 1]
              x2 == [solverW.cand EXCEPT ![e][t] = 1]
          IN  /\ Feasible2(model2, x2)
              /\ solverW' = [solverW EXCEPT !.cand = x2, !.last = i]
    /\ UNCHANGED <<pcW, model2, termW, eW, horas_usadas, ganancia_por_dev,
                   asignaciones, outW, varsS, varsL>>

(* The solver returns an optimal point: its values are loaded into x. *)
Solve2_Return ==
    /\ pcW = "solving"
    /\ Feasible2(model2, solverW.cand)
    /\ obj2(model2, solverW.cand) = solverW.bound
    /\ model2' = [model2 EXCEPT !.x = solverW.cand]
    /\ termW' = "optimal"
    /\ solverW' = IdleW
    /\ pcW' = "print"
    /\ UNCHANGED <<eW, horas_usadas, ganancia_por_dev, asignaciones, outW, varsS, varsL>>

(* Lines 49-60: the status and value(model.obj) are printed whatever the
   solve answered (a variable without a value makes value() raise), then the
   three dictionaries are created. *)
PrintStatus ==
    /\ pcW = "print"
    /\ IF DOMAIN model2.x # EW
       THEN /\ pcW' = "crashed"
            /\ UNCHANGED <<outW, horas_usadas, ganancia_por_dev, asignaciones>>
       ELSE /\ outW' = Append(outW, [kind |-> "status", term |-> termW,
                                     obj |-> obj2(model2, model2.x)])
            /\ horas_usadas' = [e \in EW |-> 0]
            /\ ganancia_por_dev' = [e \in EW |-> 0]
            /\ asignaciones' = [e \in EW |-> <<>>]
            /\ pcW' = "extract"
    /\ UNCHANGED <<model2, termW, solverW, eW, varsS, varsL>>

(* The jobs of worker e: those whose value is above 0.5, in the order of T. *)
IsAssigned(x, e, t) == 2 * x[e][t] > 1
Asignados(x, e) == SelectSeq(T_list, LAMBDA t : IsAssigned(x, e, t))

SumSeq(f, q) == SumTo([i \in DOMAIN q |-> f[q[i]]], Len(q))

(* Lines 62-72: one iteration of the loop over the workers. *)
ExtractWorker ==
    /\ pcW = "extract"
    /\ eW < Len(E_list)
    /\ LET e == E_list[eW + 1]
           asignados == Asignados(model2.x, e)
       IN  IF asignados # <<>>
           THEN /\ horas_usadas' =
                       [horas_usadas EXCEPT ![e] = SumSeq(model2.h, asignados)]
                /\ ganancia_por_dev' =
                       [ganancia_por_dev EXCEPT ![e] = SumSeq(model2.G, asignados)]
                /\ asignaciones' = [asignaciones EXCEPT ![e] = asignados]
                /\ outW' = Append(outW, [kind |-> "worker", term |-> termW,
                                         obj |-> SumSeq(model2.G, asignados)])
           ELSE /\ outW' = Append(outW, [kind |-> "worker", term |-> termW,
                                         obj |-> 0])
                /\ UNCHANGED <<horas_usadas, ganancia_por_dev, asignaciones>>
    /\ eW' = eW + 1
    /\ UNCHANGED <<pcW, model2, termW, solverW, varsS, varsL>>

(* Lines 78-145: the three charts, from x, horas_usadas, Te and
   ganancia_por_dev. *)
Charts2 ==
    /\ pcW = "extract"
    /\ eW = Len(E_list)
    /\ outW' = Append(outW, [kind |-> "charts", term |-> termW,
                             obj |-> SumTo([i \in DOMAIN E_list |->
                                               ganancia_por_dev[E_list[i]]],
                                           Len(E_list))])
    /\ pcW' = "done"
    /\ UNCHANGED <<model2, termW, solverW, eW, horas_usadas, ganancia_por_dev,
                   asignaciones, varsS, varsL>>

NextW ==
    \/ Solve2_Unavailable
    \/ Solve2_Start
    \/ Solve2_Branch
    \/ Solve2_Return
    \/ PrintStatus
    \/ ExtractWorker
    \/ Charts2

----------------------------------------------------------------------------
(* punto_3.py: data and model.  x[r,a] is a weight in tons, a non-negative
   real; the points considered here are those of whole tons. *)

v == <<50, 100, 120, 60, 40>>
s == <<15, 5, 20, 18, 10>>
u == <<8, 2, 10, 12, 6>>
W == <<30, 40, 50>>
U == <<25, 30, 35>>
M == 1000
NR == 5
NA == 3
R == 1..NR
A == 1..NA

obj_rule(model, x) ==
    SumTo([r \in R |-> model.v[r] * SumTo(x[r], NA)], NR)

stock_rule(model, x, r) == SumTo(x[r], NA) <= model.s[r]

weight_rule(model, x, a) == SumTo([r \in R |-> x[r][a]], NR) <= model.W[a]

volume_rule(model, x, a) ==
    SumTo([r \in R |-> model.u[r] * x[r][a]], NR) <= model.U[a]

(* security_rule with the two indices exchanged. *)
security_rule_Transposed(model, x) == x[1][2] = 0

security_rule(model, x) == x[2][1] = 0

(* med_bigM without the constant M. *)
med_bigM_NoM(model, x, y_med, a) == x[3][a] <= y_med[a]

med_bigM(model, x, y_med, a) == x[3][a] <= M * y_med[a]

agua_bigM(model, x, y_agua, a) == x[4][a] <= M * y_agua[a]

incompat_rule(model, y_med, y_agua, a) == y_med[a] + y_agua[a] <= 1

Feasible3(model, x, y_med, y_agua) ==
    /\ \A r \in R : stock_rule(model, x, r)
    /\ \A a \in A : weight_rule(model, x, a)
    /\ \A a \in A : volume_rule(model, x, a)
    /\ security_rule(model, x)
    /\ \A a \in A : med_bigM(model, x, y_med, a)
    /\ \A a \in A : agua_bigM(model, x, y_agua, a)
    /\ \A a \in A : incompat_rule(model, y_med, y_agua, a)

Zero3 == [r \in R |-> [a \in A |-> 0]]
ZeroY == [a \in A |-> 0]

----------------------------------------------------------------------------
(* punto_3.py: the script *)

(* The stocks the script is run with: those of the source, or those with one
   stock negative (an invalid configuration). *)
BadStocks == {-1}
StockInputs == {s} \cup {[s EXCEPT ![r] = b] : r \in R, b \in BadStocks}

(* The search only considers points made of at most MaxLoads loads, each of
   one of these sizes (tons) of one resource on one aircraft. *)
MaxLoads == 2
LoadSizes == {1, 16}

IdleL == [cand |-> NoValues, loads |-> 0]

(* Param(model.R, initialize=s) takes any number: the model is built
   whatever the stocks are. *)
InitLWith(stock) ==
    /\ pcL = "solve"
    /\ model3 = [v |-> v, s |-> stock, u |-> u, W |-> W, U |-> U,
                 x |-> NoValues, y_med |-> NoValues, y_agua |-> NoValues]
    /\ termL = "none"
    /\ solverL = IdleL
    /\ outL = <<>>

InitL == InitLWith(s)

(* SolverFactory('glpk') found no executable: solve raises, the script ends. *)
Solve3_Unavailable ==
    /\ pcL = "solve"
    /\ pcL' = "crashed"
    /\ termL' = "error"
    /\ UNCHANGED <<model3, solverL, outL, varsS, varsW>>

(* solver.solve(model): no constraint has a positive lower bound on a sum of
   variables, so there is a feasible point exactly when the point of all
   zeros is one.  With none the solver answers "infeasible" and loads
   nothing. *)
Solve3_Start ==
    /\ pcL = "solve"
    /\ IF ~Feasible3(model3, Zero3, ZeroY, ZeroY)
       THEN /\ termL' = "infeasible"
            /\ pcL' = "report"
            /\ UNCHANGED solverL
       ELSE /\ solverL' = [cand |-> Zero3, loads |-> 0]
            /\ pcL' = "solving"
            /\ UNCHANGED termL
    /\ UNCHANGED <<model3, outL, varsS, varsW>>

(* The solver moves to another point: more of resource r on aircraft a. *)
Solve3_Load ==
    /\ pcL = "solving"
    /\ solverL.loads < MaxLoads
    /\ \E r \in R, a \in A, q \in LoadSizes :
          solverL' = [cand |-> [solverL.cand EXCEPT ![r][a] = @ + q],
                      loads |-> solverL.loads + 1]
    /\ UNCHANGED <<pcL, model3, termL, outL, varsS, varsW>>

(* The solver returns: the values of a point that satisfies every constraint
   are loaded into x, y_med and y_agua.  The optimum over the reals is not
   computed here: the point loaded is any feasible one, the optimum
   included when it is a point of whole tons. *)
Solve3_Return ==
    /\ pcL = "solving"
    /\ \E y_med \in [A -> Binary], y_agua \in [A -> Binary] :
          /\ Feasible3(model3, solverL.cand, y_med, y_agua)
          /\ model3' = [model3 EXCEPT !.x = solverL.cand,
                                      !.y_med = y_med, !.y_agua = y_agua]
    /\ termL' = "optimal"
    /\ solverL' = IdleL
    /\ pcL' = "report"
    /\ UNCHANGED <<outL, varsS, varsW>>

(* The cells the report prints: those with a positive value. *)
Positive3(x) == {c \in R \X A : x[c[1]][c[2]] > 0}

(* Report3 over variables created with the value 0: nothing raises, and an
   objective value is printed whatever the solve answered. *)
Report3_ZeroDefault ==
    /\ pcL = "report"
    /\ IF DOMAIN model3.x # R
       THEN outL' = Append(outL, [kind |-> "report", obj |-> 0, cells |-> {}])
       ELSE outL' = Append(outL, [kind |-> "report",
                                  obj |-> obj_rule(model3, model3.x),
                                  cells |-> Positive3(model3.x)])
    /\ pcL' = "chart"
    /\ UNCHANGED <<model3, termL, solverL, varsS, varsW>>

(* Lines 122-130: model.obj() and x[r,a].value are read whatever the solve
   answered; a variable without a value makes model.obj() raise. *)
Report3 ==
    /\ pcL = "report"
    /\ IF DOMAIN model3.x # R
       THEN /\ pcL' = "crashed"
            /\ UNCHANGED outL
       ELSE /\ outL' = Append(outL, [kind |-> "report",
                                     obj |-> obj_rule(model3, model3.x),
                                     cells |-> Positive3(model3.x)])
            /\ pcL' = "chart"
    /\ UNCHANGED <<model3, termL, solverL, varsS, varsW>>

(* Lines 136-151: the values of x are copied into the matrix of the chart. *)
Chart3 ==
    /\ pcL = "chart"
    /\ outL' = Append(outL, [kind |-> "chart", obj |-> 0,
                             cells |-> Positive3(model3.x)])
    /\ pcL' = "done"
    /\ UNCHANGED <<model3, termL, solverL, varsS, varsW>>

NextL ==
    \/ Solve3_Unavailable
    \/ Solve3_Start
    \/ Solve3_Load
    \/ Solve3_Return
    \/ Report3
    \/ Chart3

----------------------------------------------------------------------------
(* Specifications: one script runs, the others have not started. *)

InitSprint == InitS /\ InitW /\ InitL
InitAssign == InitSearchB /\ InitW /\ InitL
InitWorkers == InitS /\ InitW /\ InitL
InitLogistics == InitS /\ InitW /\ \E stock \in StockInputs : InitLWith(stock)

Next == NextS

(* punto_1ab.py from its first solve to the chart. *)
Spec == InitSprint /\ [][Next]_vars

(* The nodes of the search for modelB. *)
SpecAssign == InitAssign /\ [][SolveB_Branch]_vars

(* punto_1ab.py, Part A, with a solver that may answer any point. *)
SpecUntrusted == InitSprint /\ [][NextUntrusted]_vars

(* punto_2a.py from its solve to the charts. *)
SpecWorkers == InitWorkers /\ [][NextW]_vars

(* punto_3.py from its solve to the chart, for each of the stocks. *)
SpecLogistics == InitLogistics /\ [][NextL]_vars

----------------------------------------------------------------------------
(* Claims on punto_1ab.py *)

RECURSIVE SumOver(_, _)
SumOver(f, S) ==
    IF S = {} THEN 0
    ELSE LET e == CHOOSE e \in S : TRUE IN f[e] + SumOver(f, S \ {e})

(* The best total priority of a subset of the 11 tasks of at most 52 points,
   by enumeration of the 2^11 subsets. *)
BruteForceBestA ==
    Max({SumOver(w, S) : S \in {S \in SUBSET (1..11) : SumOver(p, S) <= 52}})

(* C1: once the solve of modelA has loaded values into x, the tasks with
   x[t] = 1 have at most 52 points in all, and their total priority is the
   greatest total priority of any subset of the 11 tasks of at most 52
   points. *)
C1_PartAOptimal ==
    DOMAIN modelA.x = T =>
        LET S == {t \in T : modelA.x[t] = 1}
        IN  /\ \A t \in T : modelA.x[t] \in {0, 1}
            /\ SumOver(p, S) <= 52
            /\ SumOver(w, S) = BruteForceBestA

C1_Witness ==
    /\ pcS = "solveB"
    /\ termS = "optimal"
    /\ DOMAIN modelA.x = T
    /\ Len(outS) = 1
    /\ outS[1].sel # {}

(* The tasks of developer d in the point y, and the developers of task t. *)
TasksOf(y, d) == {t \in T : y[t][d] = 1}
DevsOf(y, t) == {d \in D : y[t][d] = 1}

(* C2: every point the search for modelB keeps, and so every point a solve
   loads into y, gives each of the 4 developers tasks of at most 15 points
   in all and gives no task to two developers. *)
C2_DevCapacityAndUnique ==
    /\ pcS = "solvingB" =>
          /\ \A d \in 1..4 : SumOver(p, TasksOf(solverS.cand, d)) <= 15
          /\ \A t \in 1..11 : Cardinality(DevsOf(solverS.cand, t)) <= 1
    /\ DOMAIN modelB.y = T =>
          /\ \A d \in 1..4 : SumOver(p, TasksOf(modelB.y, d)) <= 15
          /\ \A t \in 1..11 : Cardinality(DevsOf(modelB.y, t)) <= 1

C2_Witness ==
    /\ pcS = "solvingB"
    /\ \E d \in D : SumOver(p, TasksOf(solverS.cand, d)) = 15
    /\ Cardinality({t \in T : DevsOf(solverS.cand, t) # {}}) >= 6

(* C7: whatever point the solver answered, the selection the report of Part A
   prints has at most 52 points in all. *)
C7_ReportedWithinCapacity ==
    \A i \in DOMAIN outS :
        outS[i].part = "A" => SumOver(p, outS[i].sel) <= 52

(* C9: the solve of modelB leaves modelA as it was, the values of x and with
   them its objective value included, and no step of the script changes a
   parameter of either model. *)
C9_SolveBFrame ==
    [][/\ pcS \in {"solveB", "solvingB"} =>
             /\ modelA' = modelA
             /\ objA_rule(modelA', modelA'.x) = objA_rule(modelA, modelA.x)
       /\ modelA'.p = modelA.p /\ modelA'.w = modelA.w
       /\ modelB'.p = modelB.p /\ modelB'.w = modelB.w /\ modelB'.K = modelB.K
      ]_vars

C9_Witness ==
    /\ pcS = "reportB"
    /\ termS = "optimal"
    /\ DOMAIN modelA.x = T
    /\ DOMAIN modelB.y = T
    /\ \E t \in T : DevsOf(modelB.y, t) # {}

(* The optimal value of Part A. *)
BestValA ==
    LET m == [p |-> p, w |-> w, x |-> NoValues]
    IN  Max({objA_rule(m, x) : x \in {x \in DomainA : FeasibleA(m, x)}})

(* C10: for every point y of the search for modelB, x[t] = sum over d of
   y[t,d] is a point of modelA's domain that satisfies modelA's constraint
   and has the same objective value, which is therefore at most the optimal
   value of Part A; and tasks 5 and 11 have no developer. *)
C10_PartBRestrictsPartA ==
    pcS = "solvingB" =>
        LET y == solverS.cand
            x == [t \in T |-> RowSum(y[t])]
        IN  /\ x \in DomainA
            /\ FeasibleA(modelA, x)
            /\ objA_rule(modelA, x) = objB_rule(modelB, y)
            /\ objB_rule(modelB, y) <= BestValA
            /\ DevsOf(y, 5) = {} /\ DevsOf(y, 11) = {}

C10_Witness ==
    /\ pcS = "solvingB"
    /\ objB_rule(modelB, solverS.cand) = BestValA
    /\ solverS.bound = 0

----------------------------------------------------------------------------
(* Claims on punto_2a.py *)

(* C3: every point the search keeps gives each worker jobs of at most Te[e]
   hours in all and gives no job to two workers; the horas_usadas the
   extraction derives from the loaded solution never exceed Te[e], and no job
   is in the asignaciones of two workers. *)
C3_WorkerHoursAndUnique ==
    /\ pcW = "solving" =>
          /\ \A e \in EW :
                SumOver(h, {t \in TW : solverW.cand[e][t] = 1}) <= Te[e]
          /\ \A t \in TW :
                Cardinality({e \in EW : solverW.cand[e][t] = 1}) <= 1
    /\ pcW \in {"extract", "done"} =>
          /\ \A e \in EW : horas_usadas[e] <= Te[e]
          /\ \A e1, e2 \in EW :
                e1 # e2 =>
                    \A i \in DOMAIN asignaciones[e1] :
                    \A j \in DOMAIN asignaciones[e2] :
                        asignaciones[e1][i] # asignaciones[e2][j]

C3_Witness ==
    /\ pcW = "done"
    /\ termW = "optimal"
    /\ \E e \in EW : horas_usadas[e] = Te[e]
    /\ \A e \in EW : asignaciones[e] # <<>>

----------------------------------------------------------------------------
(* Claims on punto_3.py *)

HasValues3 == DOMAIN model3.x = R

(* C4: every solution a solve loads keeps each resource within its stock,
   each aircraft within its weight and volume capacities, carries no
   medicines (resource 2) on aircraft 1, and has y_med[a] + y_agua[a] <= 1
   on every aircraft. *)
C4_LogisticsConstraints ==
    HasValues3 =>
        /\ \A r \in R : SumOver(model3.x[r], A) <= model3.s[r]
        /\ \A a \in A :
              /\ SumOver([r \in R |-> model3.x[r][a]], R) <= W[a]
              /\ SumOver([r \in R |-> u[r] * model3.x[r][a]], R) <= U[a]
              /\ model3.y_med[a] + model3.y_agua[a] <= 1
        /\ model3.x[2][1] = 0

C4_Witness ==
    /\ HasValues3
    /\ pcL = "done"
    /\ \E a \in A : model3.x[2][a] > 0 /\ model3.x[3][a] > 0
    /\ \E a \in A : model3.y_agua[a] = 1

(* C5: the report and the chart read the values of the variables only after
   a solve that answered "optimal". *)
C5_ReadOnlyAfterOptimal ==
    [][(Report3 \/ Chart3) => termL = "optimal"]_vars

(* C6: with a negative stock the solve answers "infeasible" and the script
   never prints an objective value. *)
C6_NegativeStockNotReported ==
    (\E r \in R : model3.s[r] < 0) =>
        /\ outL = <<>>
        /\ termL # "optimal"
        /\ pcL \in {"report", "chart", "done"} => termL = "infeasible"

C6_Witness ==
    /\ \E r \in R : model3.s[r] < 0
    /\ termL = "infeasible"
    /\ pcL = "crashed"

(* The point x meets the constraints that do not involve y_med and y_agua. *)
Base3(x) ==
    /\ \A r \in R : stock_rule(model3, x, r)
    /\ \A a \in A : weight_rule(model3, x, a) /\ volume_rule(model3, x, a)
    /\ security_rule(model3, x)

SharedAircraft(x) == \E a \in A : x[3][a] > 0 /\ x[4][a] > 0

Admits3(x) ==
    \E y_med \in [A -> Binary], y_agua \in [A -> Binary] :
        Feasible3(model3, x, y_med, y_agua)

(* C8: on every point x the search considers that meets the stock, weight,
   volume and security constraints, x[3,a] and x[4,a] are below M = 1000,
   and some binary y_med, y_agua make x feasible exactly when no aircraft
   carries both medical equipment and water; no feasible point has such an
   aircraft. *)
C8_BigMExact ==
    pcL = "solving" =>
        LET x == solverL.cand
        IN  /\ Base3(x) =>
                  /\ \A a \in A : x[3][a] < 1000 /\ x[4][a] < 1000
                  /\ Admits3(x) <=> ~SharedAircraft(x)
            /\ Admits3(x) => ~SharedAircraft(x)

C8_Witness ==
    /\ pcL = "solving"
    /\ Base3(solverL.cand)
    /\ SharedAircraft(solverL.cand)

====
